---- MODULE Spec2Model ----
(***************************************************************************)
(* crypto_price_analysis: the crypto_prices table (data_collector.py), the *)
(* DataProcessor that analyses it (data_processor.py) and the rate-limited *)
(* CoinGeckoCollector that fills it (data_collector.py).                   *)
(*                                                                         *)
(* Real numbers are exact rationals [num, den]; NaN (pandas' undefined) is *)
(* 0/0.  A standard deviation is carried as its square, the sample         *)
(* variance.  Dates are day numbers: the '%Y-%m-%d' strings of the table   *)
(* order as the days they name.                                            *)
(***************************************************************************)
EXTENDS Integers, Sequences, FiniteSets, TLC

\* ---------------------------------------------------------------- bounds
MaxRows == 3        \* rows of the tables the DataProcessor is run on
MaxStored == 2      \* rows the table may grow to by writes
MaxBatch == 2       \* entries of one save_to_database call
MaxReq == 3         \* asset ids of one get_coin_comparison call
MaxSeries == 6      \* length of the series the moving average is checked on
MaxSamples == 2     \* samples of one market_chart response
MaxRequests == 3    \* outbound requests of one collector
StartTime == 100    \* time.time() when the collector is constructed

\* ------------------------------------------------------- program constants
MOVING_AVERAGE_WINDOW == 5
RATE_LIMIT == 10

\* ------------------------------------------------------------ value domains
Coins == {"ada", "btc", "eth"}
\* coin_id TEXT compares as a string: the alphabetical rank of each id
CoinRank == [c \in Coins |-> CASE c = "ada" -> 1 [] c = "btc" -> 2 [] OTHER -> 3]
Dates == {1, 2}
\* the price, market_cap and volume a sample may carry
Samples == {[price |-> 1, market_cap |-> 5, volume |-> 7],
            [price |-> 2, market_cap |-> 6, volume |-> 8]}
Entries == {[date |-> d, price |-> s.price, market_cap |-> s.market_cap,
             volume |-> s.volume] : d \in Dates, s \in Samples}
NaN == [num |-> 0, den |-> 0]
Rat(n, d) == [num |-> n, den |-> d]

VARIABLES
    table,              \* crypto_prices, in storage (rowid) order
    lastWrite,          \* per (date, coin_id): what the writes so far did to it
    ret,                \* what the last call returned or raised
    now,                \* time.time() when the last request went out
    last_request_time,  \* CoinGeckoCollector.last_request_time
    all_coins,          \* CoinGeckoCollector.all_coins
    requests,           \* the outbound requests so far: when asked for, when sent
    tz                  \* UTC offset of the process's local time zone

vars == <<table, lastWrite, ret, now, last_request_time, all_coins, requests, tz>>
collectorVars == <<now, last_request_time, all_coins, requests, tz>>

\* the days a collected sample may fall on, in any time zone of TimeZones
AllDates == {0, 1, 2}
Keys == AllDates \X Coins

\* ------------------------------------------------------------ sequences
RECURSIVE SumSeq(_)
SumSeq(s) == IF s = <<>> THEN 0 ELSE Head(s) + SumSeq(Tail(s))

RECURSIVE MinSeq(_)
MinSeq(s) == IF Len(s) = 1 THEN s[1]
             ELSE LET m == MinSeq(Tail(s)) IN IF s[1] <= m THEN s[1] ELSE m

RECURSIVE MaxSeq(_)
MaxSeq(s) == IF Len(s) = 1 THEN s[1]
             ELSE LET m == MaxSeq(Tail(s)) IN IF s[1] >= m THEN s[1] ELSE m

PriceColumn(df) == [i \in 1..Len(df) |-> df[i].price]

\* ------------------------------------------------------------ the table
\* INSERT OR REPLACE under PRIMARY KEY (date, coin_id): the row holding the key
\* is deleted and the new row gets a fresh rowid, after every other row
InsertPlain(t, row) == Append(t, row)
InsertOrReplace(t, row) ==
    Append(SelectSeq(t, LAMBDA r : ~(r.date = row.date /\ r.coin_id = row.coin_id)), row)

EntryRow(entry, coin_id) ==
    [date |-> entry.date, coin_id |-> coin_id, price |-> entry.price,
     market_cap |-> entry.market_cap, volume |-> entry.volume]

\* the loop of save_to_database over data, then the commit
RECURSIVE SaveRows(_, _, _)
SaveRows(t, data, coin_id) ==
    IF data = <<>> THEN t
    ELSE SaveRows(InsertOrReplace(t, EntryRow(Head(data), coin_id)), Tail(data), coin_id)

\* what the writes so far did to each key: whether it was written, whether a
\* later write replaced an earlier one, and the values of the last write
NeverWritten == [written |-> FALSE, replaced |-> FALSE,
                 price |-> 0, market_cap |-> 0, volume |-> 0]
LastWritten(lw, data, coin_id) ==
    [k \in DOMAIN lw |->
        LET hits == {i \in 1..Len(data) : <<data[i].date, coin_id>> = k}
        IN IF hits = {} THEN lw[k]
           ELSE LET i == CHOOSE j \in hits : \A h \in hits : h <= j
                IN [written |-> TRUE,
                    replaced |-> lw[k].written \/ Cardinality(hits) > 1,
                    price |-> data[i].price, market_cap |-> data[i].market_cap,
                    volume |-> data[i].volume]]

\* ret before any call: a call fills in what it was given and what it gave
NoRet == [op |-> "none", coin_id |-> "", coin_ids |-> <<>>, status |-> "ok",
          df |-> <<>>, analysis |-> <<>>, comparison |-> <<>>,
          status_code |-> 0, sent |-> 0, before |-> <<>>, value |-> "", data |-> <<>>,
          json |-> [prices |-> <<>>, market_caps |-> <<>>, total_volumes |-> <<>>]]

Batches == UNION {[1..n -> Entries] : n \in 0..MaxBatch}

save_to_database(data, coin_id) ==
    /\ Len(SaveRows(table, data, coin_id)) <= MaxStored
    /\ table' = SaveRows(table, data, coin_id)
    /\ lastWrite' = LastWritten(lastWrite, data, coin_id)
    /\ ret' = NoRet
    /\ UNCHANGED collectorVars

\* ------------------------------------------------------------ DataProcessor
\* SELECT * FROM crypto_prices WHERE coin_id = ?
SelectAll(t, coin_id) == t
SelectCoin(t, coin_id) == SelectSeq(t, LAMBDA r : r.coin_id = coin_id)

\* the order sort_values(by) puts two rows in: column after column of by
ColumnRank(r, column) == IF column = "date" THEN r.date ELSE CoinRank[r.coin_id]

RECURSIVE Before(_, _, _)
Before(a, b, by) ==
    /\ by # <<>>
    /\ \/ ColumnRank(a, Head(by)) < ColumnRank(b, Head(by))
       \/ /\ ColumnRank(a, Head(by)) = ColumnRank(b, Head(by))
          /\ Before(a, b, Tail(by))

RECURSIVE InsertSorted(_, _, _)
InsertSorted(sorted, r, by) ==
    IF sorted = <<>> THEN <<r>>
    ELSE IF Before(r, Head(sorted), by) THEN <<r>> \o sorted
         ELSE <<Head(sorted)>> \o InsertSorted(Tail(sorted), r, by)

RECURSIVE SortLoop(_, _, _)
SortLoop(df, acc, by) ==
    IF df = <<>> THEN acc
    ELSE SortLoop(Tail(df), InsertSorted(acc, Head(df), by), by)

NoSort(df, by) == df
sort_values(df, by) == SortLoop(df, <<>>, by)

\* df['price'].rolling(window=MOVING_AVERAGE_WINDOW).mean(): min_periods is the
\* window, so a position with fewer than window observations is NaN
RollingNoWarmup(prices) ==
    [i \in 1..Len(prices) |->
        LET lo == IF i > MOVING_AVERAGE_WINDOW THEN i - MOVING_AVERAGE_WINDOW + 1 ELSE 1
        IN Rat(SumSeq(SubSeq(prices, lo, i)), i - lo + 1)]
RollingMean(prices) ==
    [i \in 1..Len(prices) |->
        IF i < MOVING_AVERAGE_WINDOW THEN NaN
        ELSE Rat(SumSeq(SubSeq(prices, i - MOVING_AVERAGE_WINDOW + 1, i)),
                 MOVING_AVERAGE_WINDOW)]

calculate_moving_average(df) == RollingMean(PriceColumn(df))

\* ((last_price - first_price) / first_price) * 100 of iloc[0] and iloc[-1]
PriceChangePct(prices) ==
    Rat((prices[Len(prices)] - prices[1]) * 100, prices[1])

\* Series.mean()
Mean(prices) == Rat(SumSeq(prices), Len(prices))

\* Series.std(), ddof = 1, as its square: NaN for a single observation
Std(prices) ==
    LET n == Len(prices)
        s == SumSeq(prices)
        q == SumSeq([i \in 1..n |-> prices[i] * prices[i]])
    IN IF n < 2 THEN NaN ELSE Rat(n * q - s * s, n * (n - 1))

\* what get_price_analysis returns or raises on table t
PriceAnalysis(t, coin_id) ==
    LET df0 == SelectCoin(t, coin_id)
        df1 == sort_values(df0, <<"date">>)
        ma == calculate_moving_average(df1)
        df == [i \in 1..Len(df1) |->
                 [date |-> df1[i].date, coin_id |-> df1[i].coin_id,
                  price |-> df1[i].price, market_cap |-> df1[i].market_cap,
                  volume |-> df1[i].volume, moving_average |-> ma[i]]]
        prices == PriceColumn(df1)
    IN IF df0 = <<>>
       THEN [NoRet EXCEPT !.op = "get_price_analysis", !.coin_id = coin_id,
                          !.status = "ValueError"]
       ELSE [NoRet EXCEPT !.op = "get_price_analysis", !.coin_id = coin_id,
                !.df = df,
                !.analysis = <<[mean_price |-> Mean(prices),
                                std_price |-> Std(prices),
                                min_price |-> MinSeq(prices),
                                max_price |-> MaxSeq(prices),
                                price_change_pct |-> PriceChangePct(prices),
                                moving_average |-> ma]>>]

get_price_analysis(coin_id) ==
    /\ ret.op = "none"
    /\ ret' = PriceAnalysis(table, coin_id)
    /\ UNCHANGED <<table, lastWrite>>
    /\ UNCHANGED collectorVars

\* get_all_coins_data past its empty check: every row, by date and coin_id
SortedByCoin(t) == sort_values(t, <<"coin_id">>)
get_all_coins_data(t) == sort_values(t, <<"date", "coin_id">>)

\* all_data[all_data['coin_id'].isin(coin_ids)]
InSeq(x, s) == \E i \in 1..Len(s) : s[i] = x
IsInNone(all_data, coin_ids) == all_data
IsIn(all_data, coin_ids) == SelectSeq(all_data, LAMBDA r : InSeq(r.coin_id, coin_ids))

\* comparison[coin_id] = metrics: a dict keeps a key where it was first set
DictSetLast(d, k, v) == Append(SelectSeq(d, LAMBDA e : e.coin_id # k), [coin_id |-> k, metrics |-> v])
DictSet(d, k, v) ==
    IF \E i \in 1..Len(d) : d[i].coin_id = k
    THEN [i \in 1..Len(d) |-> IF d[i].coin_id = k THEN [coin_id |-> k, metrics |-> v] ELSE d[i]]
    ELSE Append(d, [coin_id |-> k, metrics |-> v])

\* the loop over coin_ids: iloc[0] of a coin without rows raises IndexError
RECURSIVE ComparisonLoop(_, _, _)
ComparisonLoop(coin_data, coin_ids, comparison) ==
    IF coin_ids = <<>> THEN [status |-> "ok", comparison |-> comparison]
    ELSE LET coin_id == Head(coin_ids)
             coin_df == SelectSeq(coin_data, LAMBDA r : r.coin_id = coin_id)
             prices == PriceColumn(coin_df)
         IN IF coin_df = <<>> THEN [status |-> "IndexError", comparison |-> <<>>]
            ELSE ComparisonLoop(coin_data, Tail(coin_ids),
                    DictSet(comparison, coin_id,
                            [price_change_pct |-> PriceChangePct(prices),
                             mean_price |-> Mean(prices),
                             volatility |-> Std(prices),
                             max_price |-> MaxSeq(prices),
                             min_price |-> MinSeq(prices)]))

\* what get_coin_comparison returns or raises on table t
CoinComparison(t, coin_ids) ==
    LET all_data == get_all_coins_data(t)
        coin_data == IsIn(all_data, coin_ids)
        out == ComparisonLoop(coin_data, coin_ids, <<>>)
        r == [NoRet EXCEPT !.op = "get_coin_comparison", !.coin_ids = coin_ids]
    IN IF t = <<>> THEN [r EXCEPT !.status = "ValueError"]
       ELSE IF coin_data = <<>> THEN [r EXCEPT !.status = "ValueError"]
       ELSE [r EXCEPT !.status = out.status, !.comparison = out.comparison]

get_coin_comparison(coin_ids) ==
    /\ ret.op = "none"
    /\ ret' = CoinComparison(table, coin_ids)
    /\ UNCHANGED <<table, lastWrite>>
    /\ UNCHANGED collectorVars

\* ------------------------------------------------------------ CoinGeckoCollector
\* 60 / RATE_LIMIT: 6.0 seconds, exact for RATE_LIMIT = 10
min_request_interval == 60 \div RATE_LIMIT

\* rate_limit entered at time t: the sleep it asks for
SleepFor(t, last) ==
    IF t - last < min_request_interval THEN min_request_interval - (t - last) ELSE 0

\* rate_limit entered at time t: the time.time() it leaves in last_request_time,
\* lag after the sleep ended (time.sleep may oversleep, the clock moves on)
rate_limit_no_sleep(t, last, lag) == t + lag
rate_limit(t, last, lag) == t + SleepFor(t, last) + lag

\* the request that follows rate_limit: it goes out as last_request_time is taken
Sent(endpoint, t, lag) ==
    [endpoint |-> endpoint, asked |-> t, slept |-> SleepFor(t, last_request_time),
     sent |-> rate_limit(t, last_request_time, lag)]

\* Response.raise_for_status raises HTTPError for a 4xx or 5xx status only
raise_for_status(status_code) == 400 <= status_code /\ status_code < 600

\* /coins/list
Catalog == <<[id |-> "btc", name |-> "Bitcoin"], [id |-> "eth", name |-> "Ethereum"]>>
CatalogResponses == {[status_code |-> 200, json |-> Catalog], [status_code |-> 500, json |-> <<>>]}
Names == {"bitcoin", "Dogecoin"}
\* str.lower()
Lower(name) == CASE name = "Bitcoin" -> "bitcoin"
                 [] name = "Ethereum" -> "ethereum"
                 [] name = "Dogecoin" -> "dogecoin"
                 [] OTHER -> name

\* what get_all_coins returns or raises on a response
AllCoins(resp) ==
    IF raise_for_status(resp.status_code) THEN [status |-> "HTTPError", all_coins |-> all_coins]
    ELSE [status |-> "ok", all_coins |-> resp.json]

get_all_coins(t, lag, resp) ==
    /\ Len(requests) < MaxRequests
    /\ requests' = Append(requests, Sent("coins/list", t, lag))
    /\ last_request_time' = rate_limit(t, last_request_time, lag)
    /\ now' = rate_limit(t, last_request_time, lag)
    /\ all_coins' = AllCoins(resp).all_coins
    /\ ret' = [NoRet EXCEPT !.op = "get_all_coins", !.status = AllCoins(resp).status,
                            !.status_code = resp.status_code, !.sent = 1]
    /\ UNCHANGED <<table, lastWrite, tz>>

\* the loop of get_coin_id: the id of the first coin of that name, or None
RECURSIVE FindCoin(_, _)
FindCoin(coins, coin_name) ==
    IF coins = <<>> THEN "None"
    ELSE IF Lower(Head(coins).name) = Lower(coin_name) THEN Head(coins).id
         ELSE FindCoin(Tail(coins), coin_name)

get_coin_id(t, lag, coin_name, resp) ==
    IF all_coins = <<>>
    THEN /\ Len(requests) < MaxRequests
         /\ requests' = Append(requests, Sent("coins/list", t, lag))
         /\ last_request_time' = rate_limit(t, last_request_time, lag)
         /\ now' = rate_limit(t, last_request_time, lag)
         /\ all_coins' = AllCoins(resp).all_coins
         /\ ret' = [NoRet EXCEPT !.op = "get_coin_id", !.status = AllCoins(resp).status,
                       !.status_code = resp.status_code, !.sent = 1,
                       !.value = IF AllCoins(resp).status = "ok"
                                 THEN FindCoin(AllCoins(resp).all_coins, coin_name) ELSE ""]
         /\ UNCHANGED <<table, lastWrite, tz>>
    ELSE /\ ret' = [NoRet EXCEPT !.op = "get_coin_id", !.value = FindCoin(all_coins, coin_name)]
         /\ UNCHANGED <<table, lastWrite, now, last_request_time, all_coins, requests, tz>>

\* /coins/{id}/market_chart/range.  Timestamps count half days from the start
\* of the window; a sample is a timestamp with a price, market cap and volume
Timestamps == {0, 1, 2}
TimeZones == {0, 1}
HttpStatuses == {200, 300, 404, 500}
ChartSamples == {[timestamp |-> ts, price |-> s.price, market_cap |-> s.market_cap,
                  volume |-> s.volume] : ts \in Timestamps, s \in Samples}
\* the three parallel arrays of the body
ChartBody(samples) ==
    [prices |-> [i \in 1..Len(samples) |-> <<samples[i].timestamp, samples[i].price>>],
     market_caps |-> [i \in 1..Len(samples) |-> <<samples[i].timestamp, samples[i].market_cap>>],
     total_volumes |-> [i \in 1..Len(samples) |-> <<samples[i].timestamp, samples[i].volume>>]]
NoBody == ChartBody(<<>>)
ChartResponses ==
    {[status_code |-> sc, json_ok |-> TRUE, json |-> ChartBody(samples)] :
        sc \in {200, 300}, samples \in UNION {[1..n -> ChartSamples] : n \in 0..MaxSamples}}
    \cup {[status_code |-> sc, json_ok |-> FALSE, json |-> NoBody] : sc \in HttpStatuses}

\* datetime.fromtimestamp(timestamp/1000).strftime('%Y-%m-%d'): the calendar day
\* of the timestamp in the local time zone, tz half days ahead of UTC
LocalDate(timestamp, zone) == ((timestamp + zone) \div 2) + 1

\* the transformation loop of get_historical_data
Transformed(json, zone) ==
    [i \in 1..Len(json.prices) |->
        [date |-> LocalDate(json.prices[i][1], zone),
         price |-> json.prices[i][2],
         market_cap |-> json.market_caps[i][2],
         volume |-> json.total_volumes[i][2]]]

\* a sort that reverses the entries of one date
SortEntriesUnstable(data) ==
    SortLoop([i \in 1..Len(data) |-> data[Len(data) + 1 - i]], <<>>, <<"date">>)

\* transformed_data.sort(key=lambda x: x['date']): list.sort is stable
SortEntries(data) == SortLoop(data, <<>>, <<"date">>)

\* what get_historical_data returns or raises on a response
HistoricalData(resp, zone) ==
    IF resp.status_code # 200 /\ raise_for_status(resp.status_code)
    THEN [status |-> "HTTPError", data |-> <<>>]
    ELSE IF ~resp.json_ok THEN [status |-> "JSONDecodeError", data |-> <<>>]
    ELSE IF Len(resp.json.market_caps) < Len(resp.json.prices)
            \/ Len(resp.json.total_volumes) < Len(resp.json.prices)
         THEN [status |-> "IndexError", data |-> <<>>]
    ELSE [status |-> "ok", data |-> SortEntries(Transformed(resp.json, zone))]

get_historical_data(t, lag, coin_id, resp) ==
    /\ Len(requests) < MaxRequests
    /\ requests' = Append(requests, Sent("market_chart/range", t, lag))
    /\ last_request_time' = rate_limit(t, last_request_time, lag)
    /\ now' = rate_limit(t, last_request_time, lag)
    /\ ret' = [NoRet EXCEPT !.op = "get_historical_data", !.coin_id = coin_id,
                  !.status = HistoricalData(resp, tz).status,
                  !.status_code = resp.status_code, !.sent = 1,
                  !.data = HistoricalData(resp, tz).data]
    /\ UNCHANGED <<table, lastWrite, all_coins, tz>>

\* collect_coin_data, then store_coin_data unless the collection raised
collect_and_store_coin_data(t, lag, coin_id, resp) ==
    LET got == HistoricalData(resp, tz)
        data == got.data
    IN /\ Len(requests) < MaxRequests
       /\ Len(SaveRows(table, data, coin_id)) <= MaxStored
       /\ requests' = Append(requests, Sent("market_chart/range", t, lag))
       /\ last_request_time' = rate_limit(t, last_request_time, lag)
       /\ now' = rate_limit(t, last_request_time, lag)
       /\ table' = IF got.status = "ok" THEN SaveRows(table, data, coin_id) ELSE table
       /\ lastWrite' = IF got.status = "ok" THEN LastWritten(lastWrite, data, coin_id)
                       ELSE lastWrite
       /\ ret' = [NoRet EXCEPT !.op = "collect_and_store_coin_data", !.coin_id = coin_id,
                     !.status = got.status, !.status_code = resp.status_code,
                     !.sent = Len(requests') - Len(requests), !.before = table,
                     !.json = resp.json]
       /\ UNCHANGED <<all_coins, tz>>

\* ------------------------------------------------------------ specifications
\* a collector just constructed, in a process of time zone tz
InitCollector ==
    /\ now = StartTime
    /\ last_request_time = 0
    /\ all_coins = <<>>
    /\ requests = <<>>
    /\ tz \in TimeZones

\* the store: any sequence of save_to_database calls on the created table
InitStore ==
    /\ table = <<>>
    /\ lastWrite = [k \in Keys |-> NeverWritten]
    /\ ret = NoRet
    /\ InitCollector

NextStore == \E data \in Batches, c \in Coins : save_to_database(data, c)

SpecStore == InitStore /\ [][NextStore]_vars

\* the tables of at most MaxRows rows, one row a key, in every storage order
Rows == {EntryRow(e, c) : e \in Entries, c \in Coins}
Tables ==
    {t \in UNION {[1..n -> Rows] : n \in 0..MaxRows} :
        \A i, j \in 1..Len(t) :
            (t[i].date = t[j].date /\ t[i].coin_id = t[j].coin_id) => i = j}

\* one coin's prices on the days 1..n, stored from day k + 1 round to day k
SeriesTables ==
    {[j \in 1..n |->
        [date |-> ((j + k - 1) % n) + 1, coin_id |-> "btc",
         price |-> p[((j + k - 1) % n) + 1], market_cap |-> 5, volume |-> 7]] :
     <<n, k, p>> \in UNION {{<<n, k, p>> : k \in 0..(n - 1), p \in [1..n -> {1, 2}]} :
                            n \in 1..MaxSeries}}

Requests == UNION {[1..n -> Coins] : n \in 0..MaxReq}

\* the analyzer: one call of the DataProcessor on any store
InitAnalyzer ==
    /\ table \in Tables \cup SeriesTables
    /\ lastWrite = [k \in Keys |-> NeverWritten]
    /\ ret = NoRet
    /\ now = StartTime /\ last_request_time = 0 /\ all_coins = <<>>
    /\ requests = <<>> /\ tz = 0

NextAnalyzer ==
    \/ \E c \in Coins : get_price_analysis(c)
    \/ \E coin_ids \in Requests : get_coin_comparison(coin_ids)

SpecAnalyzer == InitAnalyzer /\ [][NextAnalyzer]_vars

\* the collector's requests: calls Gaps after the clock's last reading
Gaps == {0, 5, 6}
Lags == {0, 1}
RateResponses == {r \in ChartResponses : Len(r.json.prices) = 0}

NextRate ==
    \/ \E g \in Gaps, lag \in Lags, resp \in CatalogResponses :
          get_all_coins(now + g, lag, resp)
    \/ \E g \in Gaps, lag \in Lags, name \in Names, resp \in CatalogResponses :
          get_coin_id(now + g, lag, name, resp)
    \/ \E g \in Gaps, lag \in Lags, resp \in RateResponses :
          get_historical_data(now + g, lag, "btc", resp)

SpecRate == InitStore /\ [][NextRate]_vars

\* collection runs of one asset, one call straight after the other
NextCollect ==
    \E resp \in ChartResponses : collect_and_store_coin_data(now, 0, "btc", resp)

SpecCollect == InitStore /\ [][NextCollect]_vars

\* the first collection of a new collector process, on a database file that is
\* empty or holds a row of an earlier run
InitFirstCollect ==
    /\ table \in {<<>>} \cup {<<r>> : r \in Rows}
    /\ lastWrite = [k \in Keys |-> NeverWritten]
    /\ ret = NoRet
    /\ InitCollector

NextFirstCollect ==
    /\ requests = <<>>
    /\ \E resp \in ChartResponses : collect_and_store_coin_data(now, 0, "btc", resp)

SpecFirstCollect == InitFirstCollect /\ [][NextFirstCollect]_vars

\* ------------------------------------------------------------ the claims
HasRows(coin_id) == \E i \in 1..Len(table) : table[i].coin_id = coin_id
RowsOf(coin_id) == {table[i] : i \in {j \in 1..Len(table) : table[j].coin_id = coin_id}}
Earliest(coin_id) == CHOOSE r \in RowsOf(coin_id) : \A q \in RowsOf(coin_id) : r.date <= q.date
Latest(coin_id) == CHOOSE r \in RowsOf(coin_id) : \A q \in RowsOf(coin_id) : q.date <= r.date
\* the row of the i-th earliest date among the rows of a coin
RowAtRank(coin_id, i) ==
    CHOOSE r \in RowsOf(coin_id) :
        Cardinality({q \in RowsOf(coin_id) : q.date < r.date}) = i - 1
\* the rows of a coin are stored out of date order
StoredOutOfOrder(coin_id) ==
    \E i, j \in 1..Len(table) :
        /\ i < j
        /\ table[i].coin_id = coin_id /\ table[j].coin_id = coin_id
        /\ table[i].date > table[j].date
Requested(coin_id) == \E i \in 1..Len(ret.coin_ids) : ret.coin_ids[i] = coin_id
\* two rationals name the same number (NaN only NaN)
SameNumber(x, y) ==
    IF x.den = 0 \/ y.den = 0 THEN x.den = 0 /\ y.den = 0
    ELSE x.num * y.den = y.num * x.den
RECURSIVE FirstOccurrences(_, _)
FirstOccurrences(s, seen) ==
    IF s = <<>> THEN <<>>
    ELSE IF Head(s) \in seen THEN FirstOccurrences(Tail(s), seen)
         ELSE <<Head(s)>> \o FirstOccurrences(Tail(s), seen \cup {Head(s)})

\* C1: when at least one requested asset has stored rows and at least one has
\* none, get_coin_comparison returns a result whose entries are exactly the
\* requested assets that have rows.
C1_PartialSuccess ==
    ( /\ ret.op = "get_coin_comparison"
      /\ \E c \in Coins : Requested(c) /\ HasRows(c)
      /\ \E c \in Coins : Requested(c) /\ ~HasRows(c) )
    => /\ ret.status = "ok"
       /\ {ret.comparison[i].coin_id : i \in 1..Len(ret.comparison)}
            = {c \in Coins : Requested(c) /\ HasRows(c)}

\* C2: after any sequence of save_to_database calls the table holds at most one
\* row per (date, coin_id), and that row carries the price, market_cap and
\* volume of the most recent write for the key.
C2_UpsertUniqueness ==
    /\ \A i, j \in 1..Len(table) :
          (table[i].date = table[j].date /\ table[i].coin_id = table[j].coin_id) => i = j
    /\ \A k \in Keys :
          LET held == {i \in 1..Len(table) : <<table[i].date, table[i].coin_id>> = k}
          IN IF lastWrite[k].written
             THEN \E i \in held :
                     /\ table[i].price = lastWrite[k].price
                     /\ table[i].market_cap = lastWrite[k].market_cap
                     /\ table[i].volume = lastWrite[k].volume
             ELSE held = {}

\* a key written more than once, in a table that holds another row too
C2_Witness ==
    \E i \in 1..Len(table) :
        /\ lastWrite[<<table[i].date, table[i].coin_id>>].replaced
        /\ Len(table) > 1

\* C3: the moving_average of get_price_analysis has the length of the series,
\* is undefined at every position before the window is full, and from there on
\* is the mean of the MOVING_AVERAGE_WINDOW prices ending at the position, in
\* date order.
C3_MovingAverageWarmup ==
    (ret.op = "get_price_analysis" /\ ret.status = "ok") =>
        LET ma == ret.analysis[1].moving_average
            n == Cardinality(RowsOf(ret.coin_id))
        IN /\ Len(ma) = n
           /\ Len(ret.df) = n
           /\ \A i \in 1..n :
                /\ ret.df[i].moving_average = ma[i]
                /\ ret.df[i].date = RowAtRank(ret.coin_id, i).date
                /\ IF i < MOVING_AVERAGE_WINDOW THEN ma[i] = NaN
                   ELSE /\ ma[i].den # 0
                        /\ ma[i].num * MOVING_AVERAGE_WINDOW =
                             ma[i].den *
                               SumSeq([j \in 1..MOVING_AVERAGE_WINDOW |->
                                  RowAtRank(ret.coin_id, i - MOVING_AVERAGE_WINDOW + j).price])

\* a series longer than the window, stored out of date order, with prices that
\* differ inside the window
C3_Witness ==
    /\ ret.op = "get_price_analysis" /\ ret.status = "ok"
    /\ Len(ret.df) > MOVING_AVERAGE_WINDOW
    /\ StoredOutOfOrder(ret.coin_id)
    /\ ret.analysis[1].moving_average[MOVING_AVERAGE_WINDOW]
         # ret.analysis[1].moving_average[MOVING_AVERAGE_WINDOW + 1]

\* C4: price_change_pct of get_price_analysis is (price at the latest date -
\* price at the earliest date) / price at the earliest date * 100, whatever the
\* order the rows are stored in.
C4_ChronologicalChange ==
    (ret.op = "get_price_analysis" /\ ret.status = "ok") =>
        SameNumber(ret.analysis[1].price_change_pct,
                   Rat((Latest(ret.coin_id).price - Earliest(ret.coin_id).price) * 100,
                       Earliest(ret.coin_id).price))

\* rows stored latest first, the price falling from the earliest to the latest
C4_Witness ==
    /\ ret.op = "get_price_analysis" /\ ret.status = "ok"
    /\ StoredOutOfOrder(ret.coin_id)
    /\ Earliest(ret.coin_id).price > Latest(ret.coin_id).price
    /\ ret.analysis[1].price_change_pct.num < 0

\* C5: get_price_analysis fails with the not-found error, returning nothing,
\* exactly when the asset has no stored row.
C5_MissingAsset ==
    ret.op = "get_price_analysis" =>
        IF HasRows(ret.coin_id) THEN ret.status = "ok" /\ ret.analysis # <<>>
        ELSE ret.status = "ValueError" /\ ret.df = <<>> /\ ret.analysis = <<>>

\* the asset has no row in a table that holds rows of other assets
C5_Witness ==
    /\ ret.op = "get_price_analysis" /\ ret.status = "ValueError"
    /\ table # <<>>

\* C6: get_coin_comparison fails with the not-found error, returning nothing,
\* when none of the requested assets has a stored row.
C6_EmptyIntersection ==
    (ret.op = "get_coin_comparison" /\ \A c \in Coins : Requested(c) => ~HasRows(c)) =>
        ret.status = "ValueError" /\ ret.comparison = <<>>

\* assets are requested and the table holds rows, none of them theirs
C6_Witness ==
    /\ ret.op = "get_coin_comparison" /\ ret.status = "ValueError"
    /\ table # <<>> /\ ret.coin_ids # <<>>

\* C7: each entry of get_coin_comparison carries the price_change_pct, mean,
\* volatility, min and max that get_price_analysis reports for the asset on the
\* same table.
C7_ComparisonEqualsAnalysis ==
    (ret.op = "get_coin_comparison" /\ ret.status = "ok") =>
        \A i \in 1..Len(ret.comparison) :
            LET m == ret.comparison[i].metrics
                a == PriceAnalysis(table, ret.comparison[i].coin_id)
            IN /\ Requested(ret.comparison[i].coin_id)
               /\ a.status = "ok"
               /\ m.price_change_pct = a.analysis[1].price_change_pct
               /\ m.mean_price = a.analysis[1].mean_price
               /\ m.volatility = a.analysis[1].std_price
               /\ m.min_price = a.analysis[1].min_price
               /\ m.max_price = a.analysis[1].max_price

\* two assets compared, one stored latest first with another's row in between
C7_Witness ==
    /\ ret.op = "get_coin_comparison" /\ ret.status = "ok"
    /\ Len(ret.comparison) = 2
    /\ Len(table) = 3
    /\ table[1].coin_id = table[3].coin_id /\ table[2].coin_id # table[1].coin_id
    /\ table[1].date > table[3].date /\ table[1].price # table[3].price

\* C8: the entries of get_coin_comparison appear in the order of the first
\* occurrence of each id in the caller's list.
C8_CallerOrder ==
    (ret.op = "get_coin_comparison" /\ ret.status = "ok") =>
        [i \in 1..Len(ret.comparison) |-> ret.comparison[i].coin_id]
            = FirstOccurrences(ret.coin_ids, {})

\* ids listed against the alphabet, the first of them twice
C8_Witness ==
    /\ ret.op = "get_coin_comparison" /\ ret.status = "ok"
    /\ ret.coin_ids = <<"eth", "btc", "eth">>
    /\ table[1].coin_id = "btc"

\* C9: any two successive outbound requests of a collector are sent at least
\* 60 / RATE_LIMIT seconds apart, and the first request is not delayed.
C9_RateLimit ==
    /\ \A i \in 1..(Len(requests) - 1) :
          (requests[i + 1].sent - requests[i].sent) * RATE_LIMIT >= 60
    /\ requests # <<>> => requests[1].slept = 0

\* three requests to both endpoints: the second had to wait, the third came
\* late enough not to
C9_Witness ==
    /\ Len(requests) = 3
    /\ requests[1].endpoint = "coins/list"
    /\ requests[2].endpoint = "market_chart/range"
    /\ requests[2].slept > 0
    /\ requests[3].slept = 0

\* C10: when the remote API answers collect_and_store_coin_data with a
\* non-success HTTP status, the call fails, exactly one request was sent for it
\* and the table is as it was before the call.
C10_RemoteFailure ==
    ( /\ ret.op = "collect_and_store_coin_data"
      /\ ~(200 <= ret.status_code /\ ret.status_code < 300) )
    => /\ ret.status # "ok"
       /\ ret.sent = 1
       /\ table = ret.before

\* the UTC calendar day of a timestamp
UtcDay(timestamp) == (timestamp \div 2) + 1
\* the rows of the asset of the last call, in the table and before the call
Collected == SelectSeq(table, LAMBDA r : r.coin_id = ret.coin_id)
\* the rows the last call wrote: those the table did not hold before it
Written == {table[i] : i \in {j \in 1..Len(table) :
                /\ table[j].coin_id = ret.coin_id
                /\ \A k \in 1..Len(ret.before) : ret.before[k] # table[j]}}

\* C11: every row collect_and_store_coin_data writes has as its date the UTC
\* calendar day of the timestamp of its sample, in every time zone the process
\* runs in.
C11_UtcDay ==
    (ret.op = "collect_and_store_coin_data" /\ ret.status = "ok") =>
        /\ \A r \in Written :
              \E i \in 1..Len(ret.json.prices) :
                  /\ r.date = UtcDay(ret.json.prices[i][1])
                  /\ r.price = ret.json.prices[i][2]
        /\ \A i \in 1..Len(ret.json.prices) :
              \E j \in 1..Len(table) :
                  /\ table[j].coin_id = ret.coin_id
                  /\ table[j].date = UtcDay(ret.json.prices[i][1])

\* the dates the samples of the last response map to, and per date the last
\* sample of the response that maps to it
ResponseDates == {LocalDate(ret.json.prices[i][1], tz) : i \in 1..Len(ret.json.prices)}
LastSampleOf(date) ==
    CHOOSE i \in 1..Len(ret.json.prices) :
        /\ LocalDate(ret.json.prices[i][1], tz) = date
        /\ \A j \in 1..Len(ret.json.prices) :
              LocalDate(ret.json.prices[j][1], tz) = date => j <= i

\* C12: after collect_and_store_coin_data the table holds exactly one row per
\* date of the response for the asset, carrying the price, market_cap and
\* volume of the last sample of the response that maps to the date; the rows
\* of the call are as many as the distinct dates of the response.
C12_SameDayCollapse ==
    (ret.op = "collect_and_store_coin_data" /\ ret.status = "ok") =>
        /\ \A d \in ResponseDates :
              LET held == {j \in 1..Len(table) :
                              table[j].coin_id = ret.coin_id /\ table[j].date = d}
                  i == LastSampleOf(d)
              IN /\ Cardinality(held) = 1
                 /\ \A j \in held :
                       /\ table[j].price = ret.json.prices[i][2]
                       /\ table[j].market_cap = ret.json.market_caps[i][2]
                       /\ table[j].volume = ret.json.total_volumes[i][2]
        /\ Cardinality({j \in 1..Len(table) :
                           table[j].coin_id = ret.coin_id /\ table[j].date \in ResponseDates})
              = Cardinality(ResponseDates)
        /\ \A j \in 1..Len(table) :
              (table[j].coin_id # ret.coin_id \/ table[j].date \notin ResponseDates)
                  => \E k \in 1..Len(ret.before) : ret.before[k] = table[j]

\* two samples of one date with different timestamps and values, collected
\* over a row an earlier run left under that date
C12_Witness ==
    /\ ret.op = "collect_and_store_coin_data" /\ ret.status = "ok"
    /\ Len(ret.json.prices) = 2
    /\ ret.json.prices[1][1] # ret.json.prices[2][1]
    /\ ret.json.prices[1][2] # ret.json.prices[2][2]
    /\ Cardinality(ResponseDates) = 1
    /\ ret.before # <<>> /\ ret.before[1].coin_id = ret.coin_id
    /\ ret.before[1].date \in ResponseDates
    /\ Len(table) = 1
====
